---- MODULE Spec2Model ----
(***************************************************************************)
(* pmacct-prometheus (src/pipe.go): the ingestion worker reads pmacctd's   *)
(* stdout line by line, turns every "{"-prefixed line into a Flow          *)
(* (MakeFlow: json.Unmarshal, MakePeer twice, GetDirection, IsPrivate) and *)
(* adds its bytes to the flow_direction_bytes counter vector               *)
(* (LogPrometheus); main waits for SIGINT/SIGTERM, signals pmacctd, waits  *)
(* for it and returns.                                                     *)
(*                                                                         *)
(* The goroutines of main are interleaved: the worker's loop iteration is  *)
(* split where it reads the line, calls MakeFlow, writes to stdout, calls  *)
(* With and Add or ends the process, and the signal goroutine, pmacctd and *)
(* main, down to its deferred Close calls, step between them.              *)
(*                                                                         *)
(* Spec          every line of the input universe.                         *)
(* SpecShutdown  a few lines, with the fairness of the Go scheduler.       *)
(***************************************************************************)
EXTENDS Integers, Sequences, FiniteSets, TLC

VARIABLES
    verbose,    \* the -verbose flag
    localIps,   \* interfaces.LocalAddresses(): the slice of local addresses
    dbCity,     \* the database type of the file opened as GeoLite2-City.mmdb
    dbASN,      \* the database type of the file opened as GeoLite2-ASN.mmdb
    closed,     \* how many of main's deferred Close calls have run
    status,     \* the process: "running", "fatal" (the worker's log.Fatal), "panic",
                \* "exited" (main returned), "signalfatal" and "waitfatal" (main's
                \* log.Fatal after cmd.Process.Signal and after cmd.Wait)
    counters,   \* flowDirectionBytes: label tuple -> value, one entry per child created
    text,       \* the worker's text: the line scanner.Text() returned
    made,       \* what MakeFlow returned for it (NotCalled for a line not handed to it)
    out,        \* what the worker wrote to stdout for it
    nread,      \* lines read so far
    prev,       \* the counters as they were when it was read
    observed,   \* sum of flow.Bytes over the calls of Counter.Add
    wpc,        \* the worker goroutine's position: "scan", "read", "print",
                \* "observe", "add", "next", "fatal", "panic", "done"
    mpc,        \* main's position: "wait", "cmdwait", "close", "done"
    wg,         \* the WaitGroup counter
    child,      \* pmacctd: "running", "exited"
    sigint      \* whether main has sent SIGINT to pmacctd

vars == <<verbose, localIps, dbCity, dbASN, closed, status, counters, text, made, out, nread, prev,
          observed, wpc, mpc, wg, child, sigint>>

\* Lines the worker reads in one run.
MaxLines == 2

Nil == [nil |-> TRUE]

(***************************************************************************)
(* Strings, byte by byte.                                                  *)
(***************************************************************************)
\* s[i-1] of Go, and s[i-1:]
Char(s, i) == SubSeq(s, i, i)
From(s, i) == SubSeq(s, i, Len(s))

\* strings.IndexByte, counted from 1; 0 when c does not occur
RECURSIVE IndexFrom(_, _, _)
IndexFrom(s, c, i) ==
    IF i > Len(s) THEN 0 ELSE IF Char(s, i) = c THEN i ELSE IndexFrom(s, c, i + 1)
IndexByte(s, c) == IndexFrom(s, c, 1)

IsDigit(c) == c \in {"0", "1", "2", "3", "4", "5", "6", "7", "8", "9"}
DigitVal(c) ==
    CASE c = "0" -> 0 [] c = "1" -> 1 [] c = "2" -> 2 [] c = "3" -> 3 [] c = "4" -> 4
      [] c = "5" -> 5 [] c = "6" -> 6 [] c = "7" -> 7 [] c = "8" -> 8 [] c = "9" -> 9
IsHex(c) == IsDigit(c) \/ c \in {"a", "b", "c", "d", "e", "f", "A", "B", "C", "D", "E", "F"}
HexVal(c) ==
    CASE IsDigit(c) -> DigitVal(c)
      [] c \in {"a", "A"} -> 10 [] c \in {"b", "B"} -> 11 [] c \in {"c", "C"} -> 12
      [] c \in {"d", "D"} -> 13 [] c \in {"e", "E"} -> 14 [] c \in {"f", "F"} -> 15

(***************************************************************************)
(* netaddr.IP: the address family (0 for the zero IP), the address bytes   *)
(* and the IPv6 zone.                                                      *)
(***************************************************************************)
ZeroIP == [z |-> 0, b |-> <<>>, zone |-> ""]
IPv4(a, b, c, d) == [z |-> 4, b |-> <<a, b, c, d>>, zone |-> ""]
IPv6Raw(bytes, zone) == [z |-> 6, b |-> bytes, zone |-> zone]

ParseError == [err |-> TRUE, ip |-> ZeroIP]
Parsed(ip) == [err |-> FALSE, ip |-> ip]

\* netaddr's parseIPv4: four decimal fields of at most 255 separated by single
\* dots; the digits of a field are not counted, so leading zeros are read.
RECURSIVE parseIPv4Loop(_, _, _, _)
parseIPv4Loop(s, i, val, fields) ==
    IF i > Len(s)
    THEN IF Len(fields) < 3 THEN ParseError
         ELSE Parsed(IPv4(fields[1], fields[2], fields[3], val))
    ELSE IF IsDigit(Char(s, i))
    THEN IF val * 10 + DigitVal(Char(s, i)) > 255 THEN ParseError
         ELSE parseIPv4Loop(s, i + 1, val * 10 + DigitVal(Char(s, i)), fields)
    ELSE IF Char(s, i) = "."
    THEN IF i = 1 \/ i = Len(s) \/ Char(s, i - 1) = "." THEN ParseError
         ELSE IF Len(fields) = 3 THEN ParseError
         ELSE parseIPv4Loop(s, i + 1, 0, Append(fields, val))
    ELSE ParseError

parseIPv4(s) == parseIPv4Loop(s, 1, 0, <<>>)

\* The hexadecimal field at the start of s: its length and its value.
RECURSIVE hexField(_, _, _)
hexField(s, off, acc) ==
    IF off < Len(s) /\ IsHex(Char(s, off + 1))
    THEN IF acc * 16 + HexVal(Char(s, off + 1)) > 65535
         THEN [err |-> TRUE, off |-> off, acc |-> acc]
         ELSE hexField(s, off + 1, acc * 16 + HexVal(Char(s, off + 1)))
    ELSE [err |-> FALSE, off |-> off, acc |-> acc]

FieldsError == [err |-> TRUE, s |-> "", ip |-> <<>>, ellipsis |-> -1]

\* The loop of netaddr's parseIPv6 over the colon-separated fields: the bytes
\* read, where the "::" stands, and what is left of s.
RECURSIVE parseIPv6Fields(_, _, _)
parseIPv6Fields(s, ip, ellipsis) ==
    IF Len(ip) >= 16 THEN [err |-> FALSE, s |-> s, ip |-> ip, ellipsis |-> ellipsis]
    ELSE LET h == hexField(s, 0, 0)
             rest == From(s, h.off + 1)
             ip2 == ip \o <<h.acc \div 256, h.acc % 256>>
         IN  IF h.err \/ h.off = 0 THEN FieldsError
             ELSE IF h.off < Len(s) /\ Char(s, h.off + 1) = "."
             THEN IF (ellipsis < 0 /\ Len(ip) # 12) \/ Len(ip) + 4 > 16 \/ parseIPv4(s).err
                  THEN FieldsError
                  ELSE [err |-> FALSE, s |-> "", ip |-> ip \o parseIPv4(s).ip.b,
                        ellipsis |-> ellipsis]
             ELSE IF rest = ""
             THEN [err |-> FALSE, s |-> "", ip |-> ip2, ellipsis |-> ellipsis]
             ELSE IF Char(rest, 1) # ":" \/ Len(rest) = 1 THEN FieldsError
             ELSE IF Char(rest, 2) = ":"
             THEN IF ellipsis >= 0 THEN FieldsError
                  ELSE IF Len(rest) = 2
                  THEN [err |-> FALSE, s |-> "", ip |-> ip2, ellipsis |-> Len(ip2)]
                  ELSE parseIPv6Fields(From(rest, 3), ip2, Len(ip2))
             ELSE parseIPv6Fields(From(rest, 2), ip2, ellipsis)

Zeros(n) == [i \in 1..n |-> 0]

\* netaddr's parseIPv6: the zone after "%", a leading "::", the fields, and the
\* zeros the "::" stands for.
parseIPv6(in) ==
    LET p == IndexByte(in, "%")
        s0 == IF p = 0 THEN in ELSE SubSeq(in, 1, p - 1)
        zone == IF p = 0 THEN "" ELSE From(in, p + 1)
        lead == Len(s0) >= 2 /\ SubSeq(s0, 1, 2) = "::"
        s1 == IF lead THEN From(s0, 3) ELSE s0
        r == parseIPv6Fields(s1, <<>>, IF lead THEN 0 ELSE -1)
    IN  IF p # 0 /\ zone = "" THEN ParseError
        ELSE IF lead /\ s1 = "" THEN Parsed(IPv6Raw(Zeros(16), zone))
        ELSE IF r.err \/ r.s # "" THEN ParseError
        ELSE IF Len(r.ip) < 16
        THEN IF r.ellipsis < 0 THEN ParseError
             ELSE Parsed(IPv6Raw(SubSeq(r.ip, 1, r.ellipsis) \o Zeros(16 - Len(r.ip))
                                 \o SubSeq(r.ip, r.ellipsis + 1, Len(r.ip)), zone))
        ELSE IF r.ellipsis >= 0 THEN ParseError
        ELSE Parsed(IPv6Raw(r.ip, zone))

\* netaddr.ParseIP: the first ".", ":" or "%" of s decides how it is parsed.
RECURSIVE ParseIPFrom(_, _)
ParseIPFrom(s, i) ==
    IF i > Len(s) THEN ParseError
    ELSE IF Char(s, i) = "." THEN parseIPv4(s)
    ELSE IF Char(s, i) = ":" THEN parseIPv6(s)
    ELSE IF Char(s, i) = "%" THEN ParseError
    ELSE ParseIPFrom(s, i + 1)

ParseIP(s) == ParseIPFrom(s, 1)

\* IsPrivate widened to the loopback and link-local ranges.
IsPrivate_Wide(ip) ==
    IF ip.z = 4
    THEN \/ ip.b[1] = 10
         \/ (ip.b[1] = 172 /\ (ip.b[2] \div 16) * 16 = 16)
         \/ (ip.b[1] = 192 /\ ip.b[2] = 168)
         \/ ip.b[1] = 127
         \/ (ip.b[1] = 169 /\ ip.b[2] = 254)
    ELSE IF ip.z = 6
    THEN \/ (ip.b[1] \div 2) * 2 = 252
         \/ (ip.b[1] = 254 /\ (ip.b[2] \div 64) * 64 = 128)
         \/ ip.b = Zeros(15) \o <<1>>
    ELSE FALSE

\* netaddr.IP.IsPrivate: 10.0.0.0/8, 172.16.0.0/12, 192.168.0.0/16 for an IPv4
\* address, fc00::/7 for an IPv6 address, false for the zero IP.
IsPrivate(ip) ==
    IF ip.z = 4
    THEN \/ ip.b[1] = 10
         \/ (ip.b[1] = 172 /\ (ip.b[2] \div 16) * 16 = 16)
         \/ (ip.b[1] = 192 /\ ip.b[2] = 168)
    ELSE IF ip.z = 6
    THEN (ip.b[1] \div 2) * 2 = 252
    ELSE FALSE

(***************************************************************************)
(* The two GeoLite2 readers.  Reader.City and Reader.ASN return nil (and   *)
(* an InvalidMethodError) when the database opened is not of their type;   *)
(* otherwise they return a record, which is the zero record for an address *)
(* the database has no entry for.                                          *)
(*                                                                         *)
(* main's deferred Close calls run while the worker may still look up      *)
(* addresses, without synchronisation: dbASN.Close() first, dbCity.Close() *)
(* second.  A reader is given with the number of Close calls run when it   *)
(* is read.  A lookup on a closed reader returns the zero record and an    *)
(* error, or reads the unmapped file and faults.                           *)
(***************************************************************************)
DbTypes == {"GeoLite2-City", "GeoLite2-ASN"}

\* The reader is closed after n of main's deferred calls.
ASNClosed(n) == n >= 1
CityClosed(n) == n >= 2

\* A read of the unmapped database file.
Fault == [fault |-> TRUE]

NoNames == <<>>
ZeroCity == [Country |-> [Names |-> NoNames, IsoCode |-> ""],
             City |-> [Names |-> NoNames],
             Location |-> [Latitude |-> 0, Longitude |-> 0]]
ZeroASN == [AutonomousSystemNumber |-> 0, AutonomousSystemOrganization |-> ""]

\* The entries of the city database, by address bytes.
CityEntries ==
    (<<8, 8, 8, 8>> :>
        [Country |-> [Names |-> [en |-> "United States", de |-> "USA"], IsoCode |-> "US"],
         City |-> [Names |-> [en |-> "Mountain View"]],
         Location |-> [Latitude |-> 37, Longitude |-> -122]])
    @@ (<<9, 9, 9, 9>> :>
        [Country |-> [Names |-> [en |-> "Switzerland", de |-> "Schweiz"], IsoCode |-> "CH"],
         City |-> [Names |-> [de |-> "Zuerich"]],
         Location |-> [Latitude |-> 47, Longitude |-> 8]])

\* The entries of the ASN database.
ASNEntries ==
    (<<8, 8, 8, 8>> :>
        [AutonomousSystemNumber |-> 15169, AutonomousSystemOrganization |-> "GOOGLE"])
    @@ (<<1, 1, 1, 1>> :>
        [AutonomousSystemNumber |-> 13335, AutonomousSystemOrganization |-> "CLOUDFLARENET"])

\* ip.IPAddr().IP as the reader looks it up: the address bytes without the
\* zone, an IPv4-mapped IPv6 address as its IPv4 address.
LookupKey(ip) ==
    IF ip.z = 6 /\ SubSeq(ip.b, 1, 12) = Zeros(10) \o <<255, 255>> THEN SubSeq(ip.b, 13, 16)
    ELSE ip.b

\* dbCity.City(ip.IPAddr().IP), the error dropped
City(db, n, fault, ip) ==
    IF db # "GeoLite2-City" THEN Nil
    ELSE IF CityClosed(n) THEN (IF fault THEN Fault ELSE ZeroCity)
    ELSE IF LookupKey(ip) \in DOMAIN CityEntries THEN CityEntries[LookupKey(ip)]
    ELSE ZeroCity

\* dbASN.ASN(ip.IPAddr().IP), the error dropped
ASN(db, n, fault, ip) ==
    IF db # "GeoLite2-ASN" THEN Nil
    ELSE IF ASNClosed(n) THEN (IF fault THEN Fault ELSE ZeroASN)
    ELSE IF LookupKey(ip) \in DOMAIN ASNEntries THEN ASNEntries[LookupKey(ip)]
    ELSE ZeroASN

\* m[k] of a Go map: the zero string for a missing key.
MapGet(m, k) == IF k \in DOMAIN m THEN m[k] ELSE ""

Digit(d) ==
    CASE d = 0 -> "0" [] d = 1 -> "1" [] d = 2 -> "2" [] d = 3 -> "3" [] d = 4 -> "4"
      [] d = 5 -> "5" [] d = 6 -> "6" [] d = 7 -> "7" [] d = 8 -> "8" [] d = 9 -> "9"

\* strconv.FormatUint(n, 10)
RECURSIVE FormatUint(_)
FormatUint(n) == IF n < 10 THEN Digit(n) ELSE FormatUint(n \div 10) \o Digit(n % 10)

(***************************************************************************)
(* MakePeer                                                                *)
(***************************************************************************)
\* The Peer built from the parsed address and the two lookups' results.
PeerOf(ip, cityRecord, asnRecord) ==
    [Ip |-> ip,
     Country |-> IF cityRecord # Nil THEN MapGet(cityRecord.Country.Names, "en") ELSE "",
     CountryISO |-> IF cityRecord # Nil THEN cityRecord.Country.IsoCode ELSE "",
     City |-> IF cityRecord # Nil THEN MapGet(cityRecord.City.Names, "en") ELSE "",
     Asn |-> IF asnRecord # Nil THEN FormatUint(asnRecord.AutonomousSystemNumber) ELSE "",
     AsnOrg |-> IF asnRecord # Nil THEN asnRecord.AutonomousSystemOrganization ELSE "",
     Latitude |-> IF cityRecord # Nil THEN cityRecord.Location.Latitude ELSE 0,
     Longitude |-> IF cityRecord # Nil THEN cityRecord.Location.Longitude ELSE 0]

\* MakePeer after the two lookups have returned.
PeerLookedUp(ip, cityRecord, asnRecord) ==
    IF cityRecord = Fault \/ asnRecord = Fault
    THEN [err |-> FALSE, fault |-> TRUE, peer |-> Nil]
    ELSE [err |-> FALSE, fault |-> FALSE, peer |-> PeerOf(ip, cityRecord, asnRecord)]

\* MakePeer after netaddr.ParseIP has returned p.
PeerParsed(p, dbc, dba, n, fault) ==
    IF p.err
    THEN [err |-> TRUE, fault |-> FALSE, peer |-> Nil]
    ELSE PeerLookedUp(p.ip, City(dbc, n, fault, p.ip), ASN(dba, n, fault, p.ip))

\* MakePeer with the readers as they are after n of main's Close calls.
MakePeer(ipRaw, dbc, dba, n, fault) == PeerParsed(ParseIP(ipRaw), dbc, dba, n, fault)

(***************************************************************************)
(* GetDirection                                                            *)
(***************************************************************************)
containsIP(ips, ip) == \E i \in 1..Len(ips) : ips[i] = ip

\* GetDirection with the source tested first.
GetDirection_SourceFirst(f, ips) ==
    IF containsIP(ips, f.IpSrc) THEN "out"
    ELSE IF containsIP(ips, f.IpDst) THEN "in"
    ELSE "unknown"

GetDirection(f, ips) ==
    IF containsIP(ips, f.IpDst) THEN "in"
    ELSE IF containsIP(ips, f.IpSrc) THEN "out"
    ELSE "unknown"

(***************************************************************************)
(* A line of pmacctd's stdout.  A line of kind "object" is ws blanks and   *)
(* then a JSON object, given by its members in the order written; a line   *)
(* of kind "raw" is the text raw, which is no JSON document.               *)
(***************************************************************************)
\* JSON values: a string, an integer, a number n.5, true or false, null, an
\* object and the empty array.
JStr(s) == [t |-> "str", s |-> s, n |-> 0, m |-> <<>>]
JNum(n) == [t |-> "num", s |-> "", n |-> n, m |-> <<>>]
JFrac(n) == [t |-> "frac", s |-> "", n |-> n, m |-> <<>>]
JBool(b) == [t |-> "bool", s |-> "", n |-> IF b THEN 1 ELSE 0, m |-> <<>>]
JNull == [t |-> "null", s |-> "", n |-> 0, m |-> <<>>]
JObj(members) == [t |-> "obj", s |-> "", n |-> 0, m |-> members]
JArr == [t |-> "arr", s |-> "", n |-> 0, m |-> <<>>]

\* One member of an object.
KV(k, v) == [k |-> k, v |-> v]

\* strconv.Itoa
FormatInt(n) == IF n < 0 THEN "-" \o FormatUint(-n) ELSE FormatUint(n)

\* The text of a JSON value, as pmacctd writes it.
RECURSIVE Encode(_), EncodeMembers(_)
Encode(v) ==
    CASE v.t = "str" -> "\"" \o v.s \o "\""
      [] v.t = "num" -> FormatInt(v.n)
      [] v.t = "frac" -> FormatInt(v.n) \o ".5"
      [] v.t = "bool" -> IF v.n = 1 THEN "true" ELSE "false"
      [] v.t = "null" -> "null"
      [] v.t = "obj" -> "{" \o EncodeMembers(v.m) \o "}"
      [] v.t = "arr" -> "[]"
EncodeMembers(ms) ==
    IF ms = <<>> THEN ""
    ELSE "\"" \o ms[1].k \o "\": " \o Encode(ms[1].v)
         \o (IF Len(ms) = 1 THEN "" ELSE ", " \o EncodeMembers(Tail(ms)))


\* scanner.Text() for the line
Text(line) ==
    IF line.kind = "object" THEN line.ws \o Encode(JObj(line.obj)) ELSE line.raw

\* strings.TrimLeft(s, " \t")
RECURSIVE TrimLeft(_)
TrimLeft(s) ==
    IF s # "" /\ Char(s, 1) \in {" ", "\t"} THEN TrimLeft(From(s, 2)) ELSE s

\* The prefix looked for after the leading blanks.
HasPrefix_Trimmed(s, prefix) ==
    Len(TrimLeft(s)) >= Len(prefix) /\ SubSeq(TrimLeft(s), 1, Len(prefix)) = prefix

\* strings.HasPrefix
HasPrefix(s, prefix) == Len(s) >= Len(prefix) /\ SubSeq(s, 1, Len(prefix)) = prefix

(***************************************************************************)
(* json.Unmarshal([]byte(text), &f)                                        *)
(***************************************************************************)
PeerZero == [Ip |-> ZeroIP, Country |-> "", CountryISO |-> "", City |-> "", Asn |-> "",
             AsnOrg |-> "", Latitude |-> 0, Longitude |-> 0]

FlowZero == [IpSrcRaw |-> "", IpDstRaw |-> "", IpSrc |-> ZeroIP, IpDst |-> ZeroIP,
             Packages |-> 0, Bytes |-> 0, Proto |-> "", Direction |-> "",
             Private |-> FALSE, PrivateRaw |-> "", Source |-> Nil, Destination |-> Nil]

\* The exported fields of the two structs, in their order: the member name
\* (the json tag, or the field's name where there is none), the field and its type.
F(key, field, type) == [key |-> key, field |-> field, type |-> type]

FlowFields ==
    <<F("ip_src", "IpSrcRaw", "string"), F("ip_dst", "IpDstRaw", "string"),
      F("IpSrc", "IpSrc", "ip"), F("IpDst", "IpDst", "ip"),
      F("packets", "Packages", "int"), F("bytes", "Bytes", "int"),
      F("proto", "Proto", "string"), F("Direction", "Direction", "string"),
      F("Private", "Private", "bool"), F("PrivateRaw", "PrivateRaw", "string"),
      F("Source", "Source", "peer"), F("Destination", "Destination", "peer")>>

PeerFields ==
    <<F("Ip", "Ip", "ip"), F("Country", "Country", "string"),
      F("CountryISO", "CountryISO", "string"), F("City", "City", "string"),
      F("Asn", "Asn", "string"), F("AsnOrg", "AsnOrg", "string"),
      F("Latitude", "Latitude", "float"), F("Longitude", "Longitude", "float")>>

\* The lower-case form of an ASCII letter.
LowerChar(c) ==
    CASE c = "A" -> "a" [] c = "B" -> "b" [] c = "C" -> "c" [] c = "D" -> "d"
      [] c = "E" -> "e" [] c = "F" -> "f" [] c = "G" -> "g" [] c = "H" -> "h"
      [] c = "I" -> "i" [] c = "J" -> "j" [] c = "K" -> "k" [] c = "L" -> "l"
      [] c = "M" -> "m" [] c = "N" -> "n" [] c = "O" -> "o" [] c = "P" -> "p"
      [] c = "Q" -> "q" [] c = "R" -> "r" [] c = "S" -> "s" [] c = "T" -> "t"
      [] c = "U" -> "u" [] c = "V" -> "v" [] c = "W" -> "w" [] c = "X" -> "x"
      [] c = "Y" -> "y" [] c = "Z" -> "z" [] OTHER -> c

RECURSIVE Lower(_)
Lower(s) == IF s = "" THEN "" ELSE LowerChar(Char(s, 1)) \o Lower(From(s, 2))

\* bytes.EqualFold on the ASCII names of this model
EqualFold(a, b) == Len(a) = Len(b) /\ Lower(a) = Lower(b)

\* The fields of the member's name, and those whose name differs from it only
\* in case.
ExactMatches(fields, k) == {i \in 1..Len(fields) : fields[i].key = k}
FoldMatches(fields, k) == {i \in 1..Len(fields) : EqualFold(fields[i].key, k)}

Least(S) == CHOOSE i \in S : \A j \in S : i <= j
FirstOf(exact, fold) ==
    IF exact # {} THEN Least(exact) ELSE IF fold # {} THEN Least(fold) ELSE 0

\* The field a member is decoded into: the one of that name, or else the first
\* one whose name differs from the member's only in case; 0 when there is none.
FieldFor(fields, k) == FirstOf(ExactMatches(fields, k), FoldMatches(fields, k))

\* What decoding a value gives: the value stored, whether an error was saved
\* (an UnmarshalTypeError: decoding goes on and Unmarshal returns the first of
\* them at the end) and whether decoding stopped (the error of an
\* UnmarshalText, returned at once).
Decoded(val) == [err |-> FALSE, stop |-> FALSE, val |-> val]
Mismatch(val) == [err |-> TRUE, stop |-> FALSE, val |-> val]
Stopped(val) == [err |-> TRUE, stop |-> TRUE, val |-> val]

\* netaddr.IP.UnmarshalText: refuses a non-zero IP, leaves it for the empty
\* text, and parses any other text (the IP is zero when that fails).
IPOf(p) == IF p.err THEN Stopped(p.ip) ELSE Decoded(p.ip)
UnmarshalText(cur, s) ==
    IF cur # ZeroIP THEN Stopped(cur)
    ELSE IF s = "" THEN Decoded(cur)
    ELSE IPOf(ParseIP(s))

\* The Peer a *Peer field points to once a value other than null is decoded
\* into it: the one it has, or a new zero Peer.
Allocated(cur) == IF cur = Nil THEN PeerZero ELSE cur

\* One JSON value decoded into a field of the given type holding cur: null
\* leaves a value as it is and sets a pointer to nil, a value of another JSON
\* type is an UnmarshalTypeError that leaves the field (a *Peer allocated), a
\* netaddr.IP is decoded by its UnmarshalText and a *Peer from the members of
\* an object.  (The fraction of a number decoded into a float64 is dropped;
\* MakeFlow overwrites the Peers.)
RECURSIVE DecodeValue(_, _, _), DecodeStruct(_, _, _, _), DecodeMember(_, _, _, _, _),
          DecodeRest(_, _, _, _, _, _)
DecodeValue(type, cur, v) ==
    IF v.t = "null" THEN Decoded(IF type = "peer" THEN Nil ELSE cur)
    ELSE CASE type = "string" -> IF v.t = "str" THEN Decoded(v.s) ELSE Mismatch(cur)
           [] type = "int" -> IF v.t = "num" THEN Decoded(v.n) ELSE Mismatch(cur)
           [] type = "float" -> IF v.t \in {"num", "frac"} THEN Decoded(v.n) ELSE Mismatch(cur)
           [] type = "bool" -> IF v.t = "bool" THEN Decoded(v.n = 1) ELSE Mismatch(cur)
           [] type = "ip" -> IF v.t = "str" THEN UnmarshalText(cur, v.s) ELSE Mismatch(cur)
           [] type = "peer" ->
                IF v.t # "obj" THEN Mismatch(Allocated(cur))
                ELSE DecodeStruct(PeerFields, Allocated(cur), v.m, FALSE)

\* The members of an object decoded into a struct, one after the other, err
\* saying whether an error is saved already; a member no field matches is
\* skipped.
DecodeStruct(fields, rec, members, err) ==
    IF members = <<>> THEN [err |-> err, stop |-> FALSE, val |-> rec]
    ELSE DecodeMember(fields, rec, members, err, FieldFor(fields, members[1].k))

\* The first member, i being the field it is decoded into.
DecodeMember(fields, rec, members, err, i) ==
    IF i = 0 THEN DecodeStruct(fields, rec, Tail(members), err)
    ELSE DecodeRest(fields, rec, members, err, fields[i].field,
                    DecodeValue(fields[i].type, rec[fields[i].field], members[1].v))

\* The other members, d being what the first was decoded into: none of them
\* when decoding stopped.
DecodeRest(fields, rec, members, err, field, d) ==
    IF d.stop THEN Stopped([rec EXCEPT ![field] = d.val])
    ELSE DecodeStruct(fields, [rec EXCEPT ![field] = d.val], Tail(members), err \/ d.err)

\* json.Unmarshal of the line's text into a zero Flow: a text that is not
\* JSON is refused before anything is decoded.
FlowDecoded(d) == [err |-> d.err, f |-> d.val]
Unmarshal(line) ==
    IF line.kind # "object" THEN [err |-> TRUE, f |-> FlowZero]
    ELSE FlowDecoded(DecodeStruct(FlowFields, FlowZero, line.obj, FALSE))

(***************************************************************************)
(* MakeFlow: "err" (nil, err), "panic" (source.Ip or destination.Ip read   *)
(* through a nil *Peer) or "ok" (&f, nil).                                 *)
(***************************************************************************)
\* Whether MakeFlow returns the error of a failed MakePeer.
ReturnsPeerError(err, vb) == err /\ vb

\* The annotations of lines 74 to 86.
Annotate(f, s, d, ips) ==
    LET f1 == [f EXCEPT !.IpSrc = s.Ip, !.IpDst = d.Ip, !.Source = s, !.Destination = d]
        f2 == [f1 EXCEPT !.Direction = GetDirection(f1, ips)]
        priv == IsPrivate(s.Ip) /\ IsPrivate(d.Ip)
    IN  [f2 EXCEPT !.Private = priv, !.PrivateRaw = IF priv THEN "private" ELSE "public"]

\* MakeFlow after the two calls of MakePeer have returned s and d.
FlowOfPeers(f, s, d, ips, vb) ==
    IF s.fault THEN [kind |-> "panic", error |-> "fault", flow |-> Nil]
    ELSE IF ReturnsPeerError(s.err, vb) THEN [kind |-> "err", error |-> "ip", flow |-> Nil]
    ELSE IF d.fault THEN [kind |-> "panic", error |-> "fault", flow |-> Nil]
    ELSE IF ReturnsPeerError(d.err, vb) THEN [kind |-> "err", error |-> "ip", flow |-> Nil]
    ELSE IF s.peer = Nil \/ d.peer = Nil
    THEN [kind |-> "panic", error |-> "nil", flow |-> Nil]
    ELSE [kind |-> "ok", error |-> "", flow |-> Annotate(f, s.peer, d.peer, ips)]

\* MakeFlow after json.Unmarshal has returned u.
FlowDecodedFrom(u, ips, dbc, dba, vb, run) ==
    IF u.err THEN [kind |-> "err", error |-> "json", flow |-> Nil]
    ELSE FlowOfPeers(u.f, MakePeer(u.f.IpSrcRaw, dbc, dba, run.src, run.fault),
                     MakePeer(u.f.IpDstRaw, dbc, dba, run.dst, run.fault), ips, vb)

\* MakeFlow, run saying how the call falls among main's Close calls: how many
\* of them have run when the source and when the destination is looked up,
\* and whether a lookup on a closed reader faults.
MakeFlow(line, ips, dbc, dba, vb, run) ==
    FlowDecodedFrom(Unmarshal(line), ips, dbc, dba, vb, run)

NotCalled == [kind |-> "none", error |-> "", flow |-> Nil]

(***************************************************************************)
(* The counter vector.                                                     *)
(***************************************************************************)
\* CounterVec.With(labels): the child of the label values, created at 0.
With(c, key) == IF key \in DOMAIN c THEN c ELSE (key :> 0) @@ c

\* Counter.Add(v): panics on a negative v.  v is float64(flow.Bytes), which is
\* exact for every byte count below 2^53 and so for every integer of this model.
Add(c, key, v) ==
    IF v < 0 THEN [panic |-> TRUE, c |-> c]
    ELSE [panic |-> FALSE, c |-> [c EXCEPT ![key] = @ + v]]

\* The peer LogPrometheus takes the labels from.
RemotePeer(flow) == IF flow.Direction = "in" THEN flow.Source ELSE flow.Destination

\* The label values: direction, private, country, asn, asn_org.
Labels(flow) ==
    <<flow.Direction, flow.PrivateRaw,
      RemotePeer(flow).Country, RemotePeer(flow).Asn, RemotePeer(flow).AsnOrg>>

Attributed(flow) == flow.Direction = "in" \/ flow.Direction = "out"

(***************************************************************************)
(* The input universe.                                                     *)
(***************************************************************************)
AddrA == "10.0.2.1"
AddrB == "10.0.1.1"

\* The hosts that send to 10.0.2.1, the hosts it sends to, and flows between
\* two other hosts.
Senders ==
    {AddrA, AddrB, "172.16.0.1", "172.31.255.1", "172.32.0.1", "192.168.1.1", "127.0.0.1",
     "169.254.0.1", "fd00::1", "fe80::1", "febf::1", "fec0::1", "::1", "FC00::A",
     "::ffff:8.8.8.8", "fd00::1%eth0", "8.8.8.8", "1.1.1.1", "9.9.9.9"}
Receivers == {AddrB, "127.0.0.1", "8.8.8.8", "1.1.1.1", "9.9.9.9"}
OtherPairs ==
    {<<"8.8.8.8", "1.1.1.1">>, <<"8.8.8.8", "10.0.0.5">>, <<"10.0.0.1", "10.0.0.2">>,
     <<"1.1.1.1", AddrB>>, <<"127.0.0.1", "127.0.0.1">>, <<"010.0.2.01", AddrB>>}
StarPairs == {<<x, AddrA>> : x \in Senders} \cup {<<AddrA, x>> : x \in Receivers}
BadPairs ==
    {<<"not-an-ip", AddrA>>, <<AddrA, "not-an-ip">>, <<"not-an-ip", "not-an-ip">>,
     <<"", AddrA>>, <<"256.1.1.1", AddrA>>, <<AddrA, "10.0.2.1 ">>}
EdgePairs == {<<AddrA, "8.8.8.8">>, <<AddrB, AddrA>>, <<"8.8.8.8", "1.1.1.1">>}

\* A line that is a JSON object after the white space ws, and a line that is
\* not a JSON text.
Object(ws, members) == [ws |-> ws, kind |-> "object", raw |-> "", obj |-> members]
Raw(s) == [ws |-> "", kind |-> "raw", raw |-> s, obj |-> <<>>]

\* The record pmacctd prints for a flow.
FlowLine(s, d, n) ==
    Object("", <<KV("event_type", JStr("purge")), KV("ip_src", JStr(s)), KV("ip_dst", JStr(d)),
                KV("packets", JNum(2)), KV("bytes", JNum(n))>>)

\* A record from 8.8.8.8 to 10.0.2.1 with the members given after the addresses.
With88(members) ==
    Object("", <<KV("ip_src", JStr("8.8.8.8")), KV("ip_dst", JStr(AddrA))>> \o members)

Lines ==
    {FlowLine(p[1], p[2], 2) : p \in StarPairs \cup OtherPairs \cup BadPairs}
    \cup {FlowLine(p[1], p[2], -1) : p \in EdgePairs}
    \cup {FlowLine(AddrB, AddrA, 143), FlowLine("8.8.8.8", AddrA, 0),
          Object("", <<KV("ip_src", JStr("not-an-ip")), KV("bytes", JNum(10))>>),
          Object(" ", <<KV("ip_src", JStr("8.8.8.8")), KV("ip_dst", JStr(AddrA)),
                      KV("bytes", JNum(2))>>),
          With88(<<KV("bytes", JNum(2)), KV("proto", JStr("tcp")), KV("port_src", JNum(443))>>),
          With88(<<>>),
          With88(<<KV("packets", JNum(-1)), KV("bytes", JNum(2))>>),
          With88(<<KV("bytes", JStr("143"))>>),
          With88(<<KV("bytes", JFrac(2))>>),
          With88(<<KV("bytes", JNull)>>),
          With88(<<KV("bytes", JNum(1)), KV("bytes", JNum(3))>>),
          With88(<<KV("Bytes", JNum(7))>>),
          With88(<<KV("BYTES", JNum(-1))>>),
          With88(<<KV("bytes", JNum(2)), KV("Private", JStr("yes"))>>),
          With88(<<KV("bytes", JNum(2)), KV("private", JBool(TRUE)),
                   KV("direction", JStr("out")), KV("PrivateRaw", JStr("private"))>>),
          With88(<<KV("IpSrc", JStr("x")), KV("bytes", JNum(2))>>),
          With88(<<KV("bytes", JNum(2)), KV("IpSrc", JStr("10.0.2.1")), KV("IpDst", JStr(""))>>),
          With88(<<KV("IpSrc", JStr("1.1.1.1")), KV("ipsrc", JStr("1.1.1.1"))>>),
          With88(<<KV("bytes", JNum(2)),
                   KV("Source", JObj(<<KV("Country", JStr("X")), KV("latitude", JFrac(1)),
                                       KV("Ip", JStr("9.9.9.9")), KV("zip", JArr)>>))>>),
          With88(<<KV("bytes", JNum(2)), KV("Source", JObj(<<KV("Ip", JStr("x"))>>))>>),
          With88(<<KV("bytes", JNum(2)), KV("Source", JNull), KV("tags", JArr)>>),
          With88(<<KV("destination", JStr("x"))>>),
          Object("", <<KV("IP_SRC", JStr(AddrA)), KV("Ip_Dst", JStr("1.1.1.1")),
                      KV("bytes", JNum(2))>>),
          Object("", <<KV("ip_src", JNum(1)), KV("ip_dst", JStr(AddrA)), KV("bytes", JNum(2))>>),
          Raw("{\"ip_src\": \"10.0"), Raw("{]"),
          Raw("STATUS: collector started"), Raw(" INFO ( default/core ): exiting"),
          Object("\t", <<KV("bytes", JNum(2))>>), Raw("")}

\* The files at the two paths: the two databases, or two copies of one of them.
DbFiles == {<<"GeoLite2-City", "GeoLite2-ASN">>, <<"GeoLite2-ASN", "GeoLite2-ASN">>,
            <<"GeoLite2-City", "GeoLite2-City">>}

LocalChoices == {<<>>, <<IPv4(10, 0, 2, 1)>>, <<IPv4(10, 0, 1, 1), IPv4(10, 0, 2, 1)>>}

NoLine == [ws |-> "", kind |-> "none", raw |-> "", obj |-> <<>>]
NoOutput == [kind |-> "none", s |-> "", flow |-> Nil]

\* Every line pmacctd writes in this model.
ShutdownLines ==
    {FlowLine("8.8.8.8", AddrA, 2), FlowLine(AddrA, "1.1.1.1", 1),
     FlowLine("8.8.8.8", "1.1.1.1", 2), FlowLine(AddrB, AddrA, -1),
     FlowLine("not-an-ip", AddrA, 2),
     Raw("{\"ip_src\": \"10.0"), Raw("STATUS: collector started")}

\* How a call of MakeFlow can fall among main's deferred Close calls.
Runs == {[src |-> a, dst |-> b, fault |-> f] : a \in 0..2, b \in 0..2, f \in BOOLEAN}

\* scanner.Text() and MakeFlow are functions of their arguments: their values
\* over the lines and the configurations of this model.
TextOf == [l \in Lines \cup ShutdownLines |-> Text(l)]
MakeFlowOf ==
    [l \in Lines \cup ShutdownLines |-> [ips \in LocalChoices |-> [dbc \in DbTypes |->
     [dba \in DbTypes |-> [vb \in BOOLEAN |-> [a \in 0..2 |-> [b \in 0..2 |->
      [f \in BOOLEAN |->
          MakeFlow(l, ips, dbc, dba, vb, [src |-> a, dst |-> b, fault |-> f])]]]]]]]]

(***************************************************************************)
(* main, up to the start of the goroutines.                                *)
(***************************************************************************)
Init ==
    /\ verbose \in BOOLEAN
    /\ localIps \in LocalChoices
    /\ \E files \in DbFiles : dbCity = files[1] /\ dbASN = files[2]
    /\ closed = 0
    /\ status = "running"
    /\ counters = <<>>
    /\ text = NoLine
    /\ made = NotCalled
    /\ out = NoOutput
    /\ nread = 0
    /\ prev = <<>>
    /\ observed = 0
    /\ wpc = "scan"
    /\ mpc = "wait"
    /\ wg = 1
    /\ child = "running"
    /\ sigint = FALSE

(***************************************************************************)
(* The worker goroutine.  Its steps end where it reads or writes what the  *)
(* other goroutines share with it, writes to stdout or ends the process;   *)
(* main's steps fall between them.                                         *)
(***************************************************************************)
\* scanner.Scan() returned true: text := scanner.Text()
WorkerScan(line) ==
    /\ status = "running"
    /\ wpc = "scan"
    /\ nread < MaxLines
    /\ nread' = nread + 1
    /\ prev' = counters
    /\ text' = line
    /\ wpc' = "read"
    /\ UNCHANGED <<verbose, localIps, dbCity, dbASN, closed, status, counters, made, out,
                   observed, mpc, wg, child, sigint>>

\* strings.HasPrefix(text, "{") and, for a line with the prefix, MakeFlow.  The
\* step is taken at the last lookup of the call; the earlier lookups saw the
\* readers as they are now or as they were before a Close call.
\* Where the worker goes with what MakeFlow returned.
AfterMake(m) ==
    CASE m.kind = "err" -> "fatal"
      [] m.kind = "panic" -> "panic"
      [] m.kind = "ok" -> IF verbose THEN "print" ELSE "observe"

WorkerMade(m) == made' = m /\ wpc' = AfterMake(m)

WorkerMake ==
    /\ status = "running"
    /\ wpc = "read"
    /\ IF HasPrefix(TextOf[text], "{")
       THEN \E run \in Runs :
              /\ run.src <= run.dst /\ run.dst <= closed
              /\ WorkerMade(MakeFlowOf[text][localIps][dbCity][dbASN][verbose]
                                      [run.src][run.dst][run.fault])
       ELSE /\ made' = NotCalled
            /\ wpc' = "print"
    /\ UNCHANGED <<verbose, localIps, dbCity, dbASN, closed, status, counters, text, out, nread,
                   prev, observed, mpc, wg, child, sigint>>

\* The write to stdout: fmt.Printf of the flow and its peers with -verbose,
\* fmt.Println(text) for a line without the prefix.
WorkerPrint ==
    /\ status = "running"
    /\ wpc = "print"
    /\ IF made = NotCalled
       THEN /\ out' = [kind |-> "line", s |-> TextOf[text], flow |-> Nil]
            /\ wpc' = "next"
       ELSE /\ out' = [kind |-> "flow", s |-> "", flow |-> made.flow]
            /\ wpc' = "observe"
    /\ UNCHANGED <<verbose, localIps, dbCity, dbASN, closed, status, counters, text, made, nread,
                   prev, observed, mpc, wg, child, sigint>>

\* log.Fatal(err) on the error MakeFlow returned: the process ends.
WorkerFatal ==
    /\ status = "running"
    /\ wpc = "fatal"
    /\ status' = "fatal"
    /\ UNCHANGED <<verbose, localIps, dbCity, dbASN, closed, counters, text, made, out, nread,
                   prev, observed, wpc, mpc, wg, child, sigint>>

\* The panic of the worker goroutine (a nil *Peer, a fault in a lookup, a
\* negative Add) ends the process.
WorkerPanic ==
    /\ status = "running"
    /\ wpc = "panic"
    /\ status' = "panic"
    /\ UNCHANGED <<verbose, localIps, dbCity, dbASN, closed, counters, text, made, out, nread,
                   prev, observed, wpc, mpc, wg, child, sigint>>

\* LogPrometheus is entered: flowDirectionBytes.With(labels) for a flow of
\* direction in or out, the return for any other.
WorkerWith ==
    /\ status = "running"
    /\ wpc = "observe"
    /\ IF Attributed(made.flow)
       THEN /\ counters' = With(counters, Labels(made.flow))
            /\ wpc' = "add"
       ELSE /\ wpc' = "next"
            /\ UNCHANGED counters
    /\ UNCHANGED <<verbose, localIps, dbCity, dbASN, closed, status, text, made, out, nread,
                   prev, observed, mpc, wg, child, sigint>>

\* .Add(float64(flow.Bytes)) on the child, and the return from LogPrometheus
\* or the panic of Add.
WorkerAdd ==
    /\ status = "running"
    /\ wpc = "add"
    /\ LET r == Add(counters, Labels(made.flow), made.flow.Bytes)
       IN  /\ counters' = r.c
           /\ wpc' = IF r.panic THEN "panic" ELSE "next"
    /\ observed' = observed + made.flow.Bytes
    /\ UNCHANGED <<verbose, localIps, dbCity, dbASN, closed, status, text, made, out, nread,
                   prev, mpc, wg, child, sigint>>

\* The end of the loop body: text and flow go out of scope.
WorkerLoop ==
    /\ status = "running"
    /\ wpc = "next"
    /\ wpc' = "scan"
    /\ text' = NoLine
    /\ made' = NotCalled
    /\ out' = NoOutput
    /\ prev' = counters
    /\ UNCHANGED <<verbose, localIps, dbCity, dbASN, closed, status, counters, nread, observed,
                   mpc, wg, child, sigint>>

\* scanner.Scan() returned false at the end of pmacctd's stdout: pmacctd has
\* exited and the pipe holds no further line.
WorkerEOF ==
    /\ status = "running"
    /\ wpc = "scan"
    /\ child = "exited"
    /\ wpc' = "done"
    /\ UNCHANGED <<verbose, localIps, dbCity, dbASN, closed, status, counters, text, made, out,
                   nread, prev, observed, mpc, wg, child, sigint>>

\* scanner.Scan() returned false on an error: a line longer than the
\* scanner's buffer (bufio.ErrTooLong) or a failed read.
WorkerScanError ==
    /\ status = "running"
    /\ wpc = "scan"
    /\ wpc' = "done"
    /\ UNCHANGED <<verbose, localIps, dbCity, dbASN, closed, status, counters, text, made, out,
                   nread, prev, observed, mpc, wg, child, sigint>>

(***************************************************************************)
(* pmacctd, the signal goroutine and main.                                 *)
(***************************************************************************)
\* pmacctd exits, on main's SIGINT or by itself; what it wrote stays in the pipe.
ChildExit ==
    /\ status = "running"
    /\ child = "running"
    /\ child' = "exited"
    /\ UNCHANGED <<verbose, localIps, dbCity, dbASN, closed, status, counters, text, made, out,
                   nread, prev, observed, wpc, mpc, wg, sigint>>

\* The signal goroutine: SIGINT or SIGTERM arrives on termChan, wg.Done().
TermSignal ==
    /\ status = "running"
    /\ wg = 1
    /\ wg' = wg - 1
    /\ UNCHANGED <<verbose, localIps, dbCity, dbASN, closed, status, counters, text, made, out,
                   nread, prev, observed, wpc, mpc, child, sigint>>

\* wg.Wait() returns without a signal.
WaitReturns_Always(n) == TRUE

\* wg.Wait() returns once the counter is 0.
WaitReturns(n) == n = 0

\* main: wg.Wait() returns and cmd.Process.Signal(syscall.SIGINT) is called.
\* The signal is sent, or the kernel refuses it and log.Fatal ends the process
\* (no deferred call runs, pmacctd is left as it is).
MainSignal(ok) ==
    /\ status = "running"
    /\ mpc = "wait"
    /\ WaitReturns(wg)
    /\ sigint' = ok
    /\ mpc' = IF ok THEN "cmdwait" ELSE "done"
    /\ status' = IF ok THEN status ELSE "signalfatal"
    /\ UNCHANGED <<verbose, localIps, dbCity, dbASN, closed, counters, text, made, out, nread,
                   prev, observed, wpc, wg, child>>

\* main: cmd.Wait() returns after pmacctd's exit, with an error (log.Fatal ends
\* the process, no deferred call runs) or without ("finished!" is printed and
\* main returns into its deferred calls).
MainWait(ok) ==
    /\ status = "running"
    /\ mpc = "cmdwait"
    /\ child = "exited"
    /\ mpc' = IF ok THEN "close" ELSE "done"
    /\ status' = IF ok THEN status ELSE "waitfatal"
    /\ UNCHANGED <<verbose, localIps, dbCity, dbASN, closed, counters, text, made, out, nread,
                   prev, observed, wpc, wg, child, sigint>>

\* main's deferred calls, last deferred first: dbASN.Close(), then dbCity.Close().
MainClose ==
    /\ status = "running"
    /\ mpc = "close"
    /\ closed < 2
    /\ closed' = closed + 1
    /\ UNCHANGED <<verbose, localIps, dbCity, dbASN, status, counters, text, made, out, nread,
                   prev, observed, wpc, mpc, wg, child, sigint>>

\* main has returned: the process ends, whatever the other goroutines do.
MainReturn ==
    /\ status = "running"
    /\ mpc = "close"
    /\ closed = 2
    /\ mpc' = "done"
    /\ status' = "exited"
    /\ UNCHANGED <<verbose, localIps, dbCity, dbASN, closed, counters, text, made, out, nread,
                   prev, observed, wpc, wg, child, sigint>>

Next ==
    \/ \E line \in Lines : WorkerScan(line)
    \/ WorkerMake
    \/ WorkerPrint
    \/ WorkerFatal
    \/ WorkerPanic
    \/ WorkerWith
    \/ WorkerAdd
    \/ WorkerLoop
    \/ WorkerEOF
    \/ WorkerScanError
    \/ ChildExit
    \/ TermSignal
    \/ \E ok \in BOOLEAN : MainSignal(ok)
    \/ \E ok \in BOOLEAN : MainWait(ok)
    \/ MainClose
    \/ MainReturn

Spec == Init /\ [][Next]_vars

\* The same steps over the lines of the shutdown runs.
NextShutdown ==
    \/ \E line \in ShutdownLines : WorkerScan(line)
    \/ WorkerMake
    \/ WorkerPrint
    \/ WorkerFatal
    \/ WorkerPanic
    \/ WorkerWith
    \/ WorkerAdd
    \/ WorkerLoop
    \/ WorkerEOF
    \/ WorkerScanError
    \/ ChildExit
    \/ TermSignal
    \/ \E ok \in BOOLEAN : MainSignal(ok)
    \/ \E ok \in BOOLEAN : MainWait(ok)
    \/ MainClose
    \/ MainReturn

\* The steps the worker takes by itself, and those of main.
WorkerRuns ==
    \/ WorkerMake \/ WorkerPrint \/ WorkerFatal \/ WorkerPanic
    \/ WorkerWith \/ WorkerAdd \/ WorkerLoop \/ WorkerEOF
MainRuns ==
    \/ \E ok \in BOOLEAN : MainSignal(ok)
    \/ \E ok \in BOOLEAN : MainWait(ok)
    \/ MainClose
    \/ MainReturn

\* A goroutine that can run does run; a signal need never arrive, pmacctd need
\* never write or exit, and a read need never fail.
SpecShutdown ==
    /\ Init
    /\ [][NextShutdown]_vars
    /\ WF_vars(WorkerRuns)
    /\ WF_vars(MainRuns)

(***************************************************************************)
(* Vocabulary of the properties.                                           *)
(***************************************************************************)
\* The set of local addresses.
LocalSet == {localIps[i] : i \in 1..Len(localIps)}

\* The value a scrape reads for a label tuple: 0 for a child never created.
Val(c, key) == IF key \in DOMAIN c THEN c[key] ELSE 0

RECURSIVE SumOver(_, _)
SumOver(c, keys) ==
    IF keys = {} THEN 0
    ELSE LET k == CHOOSE x \in keys : TRUE IN c[k] + SumOver(c, keys \ {k})
Total(c) == SumOver(c, DOMAIN c)

\* The worker holds a line: it is between Scan and the end of the loop body.
Live == text # NoLine
\* It has tested the line's prefix and, for a line with it, called MakeFlow.
Tested == Live /\ wpc # "read"

\* What a line says: its text, its first character and its first character
\* after the blanks, what it decodes into and the addresses it names.
Reading(l) ==
    [text |-> Text(l),
     first |-> IF Text(l) = "" THEN "" ELSE Char(Text(l), 1),
     firstNonBlank |-> IF TrimLeft(Text(l)) = "" THEN "" ELSE Char(TrimLeft(Text(l)), 1),
     err |-> Unmarshal(l).err,
     f |-> Unmarshal(l).f,
     src |-> ParseIP(Unmarshal(l).f.IpSrcRaw),
     dst |-> ParseIP(Unmarshal(l).f.IpDstRaw)]
Readings == [l \in Lines \cup ShutdownLines \cup {NoLine} |-> Reading(l)]

\* The same of the line the worker holds.
LineText == Readings[text].text
FirstChar == Readings[text].first
FirstNonBlank == Readings[text].firstNonBlank
DecodeError == Readings[text].err
\* The line starts with "{" and decodes into a Flow; MakeFlow was called on it.
Decodes == Tested /\ FirstChar = "{" /\ ~DecodeError
BadAddress == Readings[text].src.err \/ Readings[text].dst.err
SrcIP == Readings[text].src.ip
DstIP == Readings[text].dst.ip
\* The line was turned into a Flow, and LogPrometheus has returned or panicked.
Observed == made.kind = "ok"
Returned == Observed /\ wpc \in {"next", "panic"}

(***************************************************************************)
(* C1.  Every Flow made has direction "in" when its destination address    *)
(* is a local address (also when its source is one too), "out" when its    *)
(* destination is not local and its source is, "unknown" when neither is.  *)
(***************************************************************************)
C1_Classify ==
    Observed =>
        /\ made.flow.IpSrc = SrcIP /\ made.flow.IpDst = DstIP
        /\ DstIP \in LocalSet => made.flow.Direction = "in"
        /\ (DstIP \notin LocalSet /\ SrcIP \in LocalSet) => made.flow.Direction = "out"
        /\ (DstIP \notin LocalSet /\ SrcIP \notin LocalSet) => made.flow.Direction = "unknown"
        /\ (DstIP \in LocalSet /\ SrcIP \in LocalSet) => made.flow.Direction # "out"

\* A flow between two different local addresses was classified "in".
C1_Witness ==
    /\ Observed
    /\ SrcIP \in LocalSet /\ DstIP \in LocalSet /\ SrcIP # DstIP
    /\ made.flow.Direction = "in"

(***************************************************************************)
(* C2.  LogPrometheus changes exactly one counter for a flow of direction  *)
(* "in" or "out" and none for a flow of direction "unknown": the counter   *)
(* of (direction, privacy, remote country, remote asn, remote asn_org)     *)
(* grows by flow.Bytes, the remote peer being the Source of an "in" flow   *)
(* and the Destination of an "out" flow; every other counter keeps its     *)
(* value.                                                                  *)
(***************************************************************************)
\* The label tuple C2 names for the flow made last.
C2_Key ==
    LET f == made.flow
        remote == IF f.Direction = "in" THEN f.Source ELSE f.Destination
    IN  <<f.Direction, f.PrivateRaw, remote.Country, remote.Asn, remote.AsnOrg>>

C2_ObserveFrame ==
    Returned =>
        IF made.flow.Direction \in {"in", "out"}
        THEN /\ Val(counters, C2_Key) = Val(prev, C2_Key) + made.flow.Bytes
             /\ \A k \in (DOMAIN counters \cup DOMAIN prev) \ {C2_Key} :
                    Val(counters, k) = Val(prev, k)
        ELSE \A k \in DOMAIN counters \cup DOMAIN prev : Val(counters, k) = Val(prev, k)

(***************************************************************************)
(* C3.  Every counter is non-negative and never lower than before, and the *)
(* counters add up to the sum of flow.Bytes over the flows of direction    *)
(* "in" or "out" whose bytes LogPrometheus has added.                      *)
(***************************************************************************)
C3_Conservation ==
    /\ \A k \in DOMAIN counters : counters[k] >= 0
    /\ \A k \in DOMAIN prev : k \in DOMAIN counters /\ counters[k] >= prev[k]
    /\ Total(counters) = observed

(***************************************************************************)
(* C5.  With -verbose on or off, a line whose ip_src or ip_dst does not    *)
(* parse makes MakeFlow return an error and no Flow; no nil *Peer is       *)
(* dereferenced, and a Flow handed to LogPrometheus has both peers.        *)
(***************************************************************************)
C5_InvalidAddressRejected ==
    /\ (Decodes /\ BadAddress) => (made.kind = "err" /\ made.error = "ip")
    /\ made.kind # "panic"
    /\ Observed => (made.flow.Source # Nil /\ made.flow.Destination # Nil)

(***************************************************************************)
(* C6.  MakeFlow returns an error for every "{"-prefixed line that is not  *)
(* valid JSON or whose packets or bytes member is negative, so no Flow     *)
(* with negative Bytes is handed to LogPrometheus.                         *)
(***************************************************************************)
C6_NegativeRejected ==
    /\ (Tested /\ FirstChar = "{" /\ (text.kind # "object" \/ Readings[text].f.Packages < 0
                                                         \/ Readings[text].f.Bytes < 0))
          => made.kind = "err"
    /\ Observed => made.flow.Bytes >= 0

(***************************************************************************)
(* C4.  As claimed: a "{"-prefixed line that does not decode, or whose     *)
(* ip_src or ip_dst does not parse, is never fatal: no counter changes and *)
(* the process keeps running, ready for the next line.                     *)
(***************************************************************************)
\* The line read last is a "{"-prefixed line of one of the two error classes,
\* and MakeFlow was called on it.
C4_Rejected == Tested /\ FirstChar = "{" /\ (DecodeError \/ BadAddress)

C4_NeverFatal == C4_Rejected => (status \notin {"fatal", "panic"} /\ counters = prev)

(***************************************************************************)
(* C7.  As claimed: a line is handed to MakeFlow exactly when its first    *)
(* non-blank character is "{"; every other line is printed as it is and    *)
(* changes no counter.                                                     *)
(***************************************************************************)
C7_FirstNonBlank ==
    Tested =>
        /\ (FirstNonBlank = "{") <=> (made # NotCalled)
        /\ (FirstNonBlank # "{") =>
               /\ wpc \in {"print", "next"}
               /\ wpc = "next" => out = [kind |-> "line", s |-> LineText, flow |-> Nil]
               /\ counters = prev

(***************************************************************************)
(* C7, amended.  A line is handed to MakeFlow exactly when its first       *)
(* character is "{" (leading blanks are not skipped); every other line is  *)
(* printed as it is before the worker reads on, is not handed to MakeFlow, *)
(* changes no counter and does not make the worker end the process.        *)
(***************************************************************************)
C7_FirstChar ==
    /\ (Live /\ ~Tested) => (made = NotCalled /\ out = NoOutput /\ counters = prev)
    /\ Tested =>
        /\ (FirstChar = "{") <=> (made # NotCalled)
        /\ (FirstChar # "{") =>
               /\ wpc \in {"print", "next"}
               /\ wpc = "print" => out = NoOutput
               /\ wpc = "next" => out = [kind |-> "line", s |-> LineText, flow |-> Nil]
               /\ counters = prev
               /\ status \notin {"fatal", "panic"}

\* A JSON object after a blank was printed, not parsed, after an earlier flow was counted.
C7_Witness ==
    /\ nread = 2 /\ text.kind = "object" /\ text.ws # "" /\ wpc = "next"
    /\ made = NotCalled /\ out.s = LineText /\ FirstNonBlank = "{"
    /\ counters = prev /\ Total(counters) > 0

(***************************************************************************)
(* C8.  When both addresses of a decoded line parse, MakeFlow succeeds     *)
(* whatever the lookups return: a lookup that finds no record for the      *)
(* address (the reader returns nil, or the database has no entry for it)   *)
(* leaves its fields of the Peer at their zero value and the other         *)
(* lookup's fields are those of its record; the Flow is handed to          *)
(* LogPrometheus, and the counter it adds to carries the remote peer's     *)
(* labels, empty for the lookups that found nothing.                       *)
(***************************************************************************)
\* The lookups of this run find no record for the address (the readers open).
C8_CityMiss(ip) == dbCity # "GeoLite2-City" \/ LookupKey(ip) \notin DOMAIN CityEntries
C8_ASNMiss(ip) == dbASN # "GeoLite2-ASN" \/ LookupKey(ip) \notin DOMAIN ASNEntries

\* The decimal text of the AS numbers of the database.
C8_AsnText(n) == CASE n = 15169 -> "15169" [] n = 13335 -> "13335"

C8_PeerMatches(peer, ip) ==
    /\ peer # Nil /\ peer.Ip = ip
    /\ C8_CityMiss(ip) =>
           /\ peer.Country = "" /\ peer.CountryISO = "" /\ peer.City = ""
           /\ peer.Latitude = 0 /\ peer.Longitude = 0
    /\ ~C8_CityMiss(ip) =>
           /\ peer.Country = MapGet(CityEntries[LookupKey(ip)].Country.Names, "en")
           /\ peer.CountryISO = CityEntries[LookupKey(ip)].Country.IsoCode
           /\ peer.City = MapGet(CityEntries[LookupKey(ip)].City.Names, "en")
           /\ peer.Latitude = CityEntries[LookupKey(ip)].Location.Latitude
           /\ peer.Longitude = CityEntries[LookupKey(ip)].Location.Longitude
    /\ C8_ASNMiss(ip) => (peer.Asn = "" /\ peer.AsnOrg = "")
    /\ ~C8_ASNMiss(ip) =>
           /\ peer.Asn = C8_AsnText(ASNEntries[LookupKey(ip)].AutonomousSystemNumber)
           /\ peer.AsnOrg = ASNEntries[LookupKey(ip)].AutonomousSystemOrganization

\* The label tuple expected for the flow, from the lookups of the remote address.
C8_Key ==
    LET ip == IF made.flow.Direction = "in" THEN SrcIP ELSE DstIP
    IN  <<made.flow.Direction, made.flow.PrivateRaw,
          IF C8_CityMiss(ip) THEN ""
          ELSE MapGet(CityEntries[LookupKey(ip)].Country.Names, "en"),
          IF C8_ASNMiss(ip) THEN ""
          ELSE C8_AsnText(ASNEntries[LookupKey(ip)].AutonomousSystemNumber),
          IF C8_ASNMiss(ip) THEN ""
          ELSE ASNEntries[LookupKey(ip)].AutonomousSystemOrganization>>

C8_LookupMiss ==
    (Decodes /\ ~BadAddress /\ closed = 0) =>
        /\ Observed
        /\ C8_PeerMatches(made.flow.Source, SrcIP)
        /\ C8_PeerMatches(made.flow.Destination, DstIP)
        /\ (Returned /\ made.flow.Direction \in {"in", "out"}) =>
               /\ C8_Key \in DOMAIN counters
               /\ \A k \in DOMAIN counters \ {C8_Key} : Val(counters, k) = Val(prev, k)

(***************************************************************************)
(* C9.  As claimed: the privacy tag is "private" exactly when both         *)
(* addresses are private-use, private-use being loopback, link-local and   *)
(* the RFC 1918 / RFC 4193 ranges.                                         *)
(***************************************************************************)
\* The first 16 bits of the address as a number.
C9_V4Hi(ip) == ip.b[1] * 256 + ip.b[2]
C9_V6Hi(ip) == ip.b[1] * 256 + ip.b[2]

\* 10.0.0.0-10.255.255.255, 172.16.0.0-172.31.255.255, 192.168.0.0-192.168.255.255, fc00::/7
C9_Rfc1918or4193(ip) ==
    \/ ip.z = 4 /\ \/ ip.b[1] = 10
                   \/ (C9_V4Hi(ip) >= 172 * 256 + 16 /\ C9_V4Hi(ip) <= 172 * 256 + 31)
                   \/ C9_V4Hi(ip) = 192 * 256 + 168
    \/ ip.z = 6 /\ C9_V6Hi(ip) >= 64512 /\ C9_V6Hi(ip) <= 65023

\* 127.0.0.0/8 and ::1
C9_Loopback(ip) ==
    \/ ip.z = 4 /\ ip.b[1] = 127
    \/ ip.z = 6 /\ ip.b = Zeros(15) \o <<1>>

\* 169.254.0.0/16 and fe80::/10
C9_LinkLocal(ip) ==
    \/ ip.z = 4 /\ C9_V4Hi(ip) = 169 * 256 + 254
    \/ ip.z = 6 /\ C9_V6Hi(ip) >= 65152 /\ C9_V6Hi(ip) <= 65215

C9_PrivateUse(ip) == C9_Rfc1918or4193(ip) \/ C9_Loopback(ip) \/ C9_LinkLocal(ip)

C9_PrivateUseTag ==
    Observed =>
        /\ made.flow.PrivateRaw = "private" <=> (C9_PrivateUse(SrcIP) /\ C9_PrivateUse(DstIP))
        /\ made.flow.PrivateRaw \in {"private", "public"}

(***************************************************************************)
(* C9, amended.  The privacy tag is "private" exactly when both addresses  *)
(* are in the RFC 1918 / RFC 4193 ranges, and "public" otherwise: a        *)
(* loopback or link-local endpoint makes the flow "public".                *)
(***************************************************************************)
C9_PrivateTag ==
    Observed =>
        /\ made.flow.PrivateRaw = "private"
               <=> (C9_Rfc1918or4193(SrcIP) /\ C9_Rfc1918or4193(DstIP))
        /\ made.flow.PrivateRaw = "public"
               <=> ~(C9_Rfc1918or4193(SrcIP) /\ C9_Rfc1918or4193(DstIP))
        /\ made.flow.Private <=> made.flow.PrivateRaw = "private"

\* A flow from a loopback address to an RFC 1918 address was tagged "public".
C9_Witness ==
    /\ Observed
    /\ C9_Loopback(SrcIP) /\ C9_Rfc1918or4193(DstIP)
    /\ made.flow.PrivateRaw = "public"

(***************************************************************************)
(* C10.  As claimed: the process does not exit while a LogPrometheus call  *)
(* is in flight; a flow whose LogPrometheus has started has its increment  *)
(* applied before main ends the process.                                   *)
(***************************************************************************)
\* LogPrometheus has selected the counter and has not added to it yet.
C10_InFlight == wpc = "add"

C10_NoExitInFlight == mpc = "done" => ~C10_InFlight

(***************************************************************************)
(* C10, amended.  main waits for the termination signal and for pmacctd,   *)
(* not for the worker.  It ends the process only after wg.Done(), in one   *)
(* of three ways: by log.Fatal when its SIGINT to pmacctd is refused       *)
(* (nothing was sent, no reader closed), by log.Fatal on the error of      *)
(* cmd.Wait, or by returning; the last two only after SIGINT was sent and  *)
(* pmacctd exited, the return only after both readers were closed.  The    *)
(* worker's log.Fatal or panic ends the process without any of this.       *)
(* Whoever ends the process may do so while a LogPrometheus call is in     *)
(* flight, whose increment is then not applied.  The worker leaves its     *)
(* loop when Scan returns false, at the end of pmacctd's stdout or on a    *)
(* read error or an overlong line; once pmacctd has exited the worker      *)
(* leaves the loop unless the process ends first.                          *)
(***************************************************************************)
\* The ways main ends the process, and the ways the worker does.
C10_EndedByMain == status \in {"signalfatal", "waitfatal", "exited"}
C10_EndedByWorker == status \in {"fatal", "panic"}

C10_ExitOrderState ==
    /\ status \in {"running", "fatal", "panic", "signalfatal", "waitfatal", "exited"}
    /\ C10_EndedByMain <=> mpc = "done"
    /\ C10_EndedByMain => wg = 0
    /\ status = "signalfatal" => (~sigint /\ closed = 0)
    /\ status = "waitfatal" => (sigint /\ child = "exited" /\ closed = 0)
    /\ status = "exited" => (sigint /\ child = "exited" /\ closed = 2)
    /\ mpc = "cmdwait" => (wg = 0 /\ sigint)
    /\ mpc = "close" => (wg = 0 /\ sigint /\ child = "exited")
    /\ closed > 0 => mpc \in {"close", "done"}
    /\ C10_EndedByWorker => wpc \in {"fatal", "panic"}
    /\ (status # "running" /\ C10_InFlight)
           => Val(counters, Labels(made.flow)) = Val(prev, Labels(made.flow))

C10_ExitOrder ==
    /\ []C10_ExitOrderState
    /\ (child = "exited") ~> (wpc = "done" \/ status # "running")

\* main returned while the increment of a counted flow was pending.
C10_Witness ==
    /\ mpc = "done" /\ status = "exited"
    /\ C10_InFlight /\ made.flow.Bytes > 0
    /\ Val(counters, Labels(made.flow)) = Val(prev, Labels(made.flow))

====
